---- MODULE Spec2Model ----
(***************************************************************************)
(* A model of the portfolio analyzer: the analytics functions of           *)
(* src/src/analytics.py and the two front-ends that keep the holdings      *)
(* (src/src/main.py, the Flask routes; src/src/app.py, the Streamlit       *)
(* script).                                                                *)
(*                                                                         *)
(* Numbers.  The code computes in binary floating point; the model         *)
(* computes the same expressions in exact rational arithmetic (a rational  *)
(* is a record [n, d] in lowest terms, d > 0), and keeps the IEEE special  *)
(* values the code can produce (nan, inf, -inf) as tagged results.         *)
(* Strings that the code slices (period labels) are sequences of           *)
(* one-character strings.                                                  *)
(***************************************************************************)
EXTENDS Integers, Sequences, FiniteSets, TLC

VARIABLES
    pc,                   \* position of the call being modelled
    period,               \* argument of _period_to_days
    result,               \* what the last operation returned or raised
    periods,              \* argument of fetch_portfolio_returns
    tickers_and_holdings, \* the holdings argument of an analytics function
    period_days,          \* fetch_portfolio_returns: period -> days
    data,                 \* fetch_portfolio_returns: the downloaded table
    fetches,              \* windows requested of yf.download, in order
    returns,              \* fetch_portfolio_returns: the dict being built
    idx,                  \* fetch_portfolio_returns: periods handled so far
    op,                   \* which metric function was called
    market,               \* what the market-data collaborator answered
    holdings,             \* main.py: the process-wide holdings dict
    session_holdings,     \* app.py: st.session_state.holdings
    response              \* the last front-end response

vars == <<pc, period, result, periods, tickers_and_holdings, period_days, data,
          fetches, returns, idx, op, market, holdings, session_holdings, response>>

None == [kind |-> "None"]

(***************************************************************************)
(* Bounds of the model.                                                    *)
(***************************************************************************)
MaxLen == 3
MaxPeriods == 2
MaxRows == 3

(***************************************************************************)
(* Exact rational arithmetic.                                              *)
(***************************************************************************)
Abs(x) == IF x < 0 THEN -x ELSE x

RECURSIVE GCD(_, _)
GCD(a, b) == IF b = 0 THEN a ELSE GCD(b, a % b)

Rat(n, d) ==
    LET s == IF d < 0 THEN -1 ELSE 1
        g == GCD(Abs(n), Abs(d))
    IN  [n |-> (s * n) \div g, d |-> (s * d) \div g]

RInt(i) == [n |-> i, d |-> 1]
RAdd(x, y) == Rat(x.n * y.d + y.n * x.d, x.d * y.d)
RSub(x, y) == Rat(x.n * y.d - y.n * x.d, x.d * y.d)
RMul(x, y) == Rat(x.n * y.n, x.d * y.d)
RDiv(x, y) == Rat(x.n * y.d, x.d * y.n)

(***************************************************************************)
(* Period labels and str.endswith / slicing.                               *)
(***************************************************************************)
Digits == <<"0", "1", "2", "3", "5">>
DigitChars == {Digits[i] : i \in 1..Len(Digits)}
Chars == DigitChars \cup {"y", "m", "o", "w", "k", "d", "x", "-"}

DigitValue(c) ==
    CASE c = "0" -> 0 [] c = "1" -> 1 [] c = "2" -> 2 [] c = "3" -> 3
      [] c = "5" -> 5

Strings(n) == UNION {[1..k -> Chars] : k \in 0..n}

endswith(s, suffix) ==
    /\ Len(s) >= Len(suffix)
    /\ SubSeq(s, Len(s) - Len(suffix) + 1, Len(s)) = suffix

\* s[:-k]
DropLast(s, k) == SubSeq(s, 1, Len(s) - k)

RECURSIVE DecimalValue(_)
DecimalValue(s) ==
    IF s = <<>> THEN 0
    ELSE 10 * DecimalValue(DropLast(s, 1)) + DigitValue(s[Len(s)])

AllDigits(s) == \A i \in 1..Len(s) : s[i] \in DigitChars

\* Python's int(str) on the characters of the model: an optional sign and one
\* or more decimal digits; anything else raises ValueError.
int(s) ==
    LET body == IF s # <<>> /\ s[1] = "-" THEN Tail(s) ELSE s
        sign == IF s # <<>> /\ s[1] = "-" THEN -1 ELSE 1
    IN  IF body # <<>> /\ AllDigits(body)
        THEN [kind |-> "ok", val |-> sign * DecimalValue(body)]
        ELSE [kind |-> "ValueError"]

Times(parsed, base) ==
    IF parsed.kind = "ok"
    THEN [kind |-> "ok", val |-> parsed.val * base]
    ELSE parsed

\* A bug the resolver could have: only one digit of the prefix is read.
_period_to_days_OneDigit(p) ==
    LET last(s) == IF s = <<>> THEN s ELSE <<s[Len(s)]>>
    IN  IF endswith(p, <<"y">>) THEN Times(int(last(DropLast(p, 1))), 252)
        ELSE IF endswith(p, <<"m", "o">>) THEN Times(int(last(DropLast(p, 2))), 21)
        ELSE IF endswith(p, <<"w", "k">>) THEN Times(int(last(DropLast(p, 2))), 5)
        ELSE IF endswith(p, <<"d">>) THEN int(last(DropLast(p, 1)))
        ELSE [kind |-> "ok", val |-> 0]

_period_to_days(p) ==
    IF endswith(p, <<"y">>) THEN Times(int(DropLast(p, 1)), 252)
    ELSE IF endswith(p, <<"m", "o">>) THEN Times(int(DropLast(p, 2)), 21)
    ELSE IF endswith(p, <<"w", "k">>) THEN Times(int(DropLast(p, 2)), 5)
    ELSE IF endswith(p, <<"d">>) THEN int(DropLast(p, 1))
    ELSE [kind |-> "ok", val |-> 0]

(***************************************************************************)
(* The period resolver called on its own.                                  *)
(***************************************************************************)
Idle ==
    /\ periods = <<>>
    /\ tickers_and_holdings = <<>>
    /\ period_days = <<>>
    /\ data = None
    /\ fetches = <<>>
    /\ returns = <<>>
    /\ idx = 0
    /\ op = "none"
    /\ market = None
    /\ holdings = <<>>
    /\ session_holdings = <<>>
    /\ response = None

InitPeriod ==
    /\ pc = "call"
    /\ period \in Strings(MaxLen)
    /\ result = None
    /\ Idle

PeriodToDays ==
    /\ pc = "call"
    /\ result' = _period_to_days(period)
    /\ pc' = "done"
    /\ UNCHANGED <<period, periods, tickers_and_holdings, period_days, data,
                   fetches, returns, idx, op, market, holdings, session_holdings,
                   response>>

NextPeriod == PeriodToDays

SpecPeriod == InitPeriod /\ [][NextPeriod]_vars

RecognizedSuffixes == {<<"y">>, <<"m", "o">>, <<"w", "k">>, <<"d">>}

Base(suffix) ==
    CASE suffix = <<"y">> -> 252
      [] suffix = <<"m", "o">> -> 21
      [] suffix = <<"w", "k">> -> 5
      [] suffix = <<"d">> -> 1

HasRecognizedSuffix(p) == \E s \in RecognizedSuffixes : endswith(p, s)

\* The prefix of p is empty or has a character that is not a digit or a sign.
MalformedLabel(p) ==
    \E s \in RecognizedSuffixes :
        /\ endswith(p, s)
        /\ LET pre == DropLast(p, Len(s))
           IN  pre = <<>> \/ \E i \in 1..Len(pre) : pre[i] \notin DigitChars \cup {"-"}

\* C2: for every label with an unrecognized suffix, or with an empty or
\* non-numeric prefix before a recognized suffix, the resolver returns 0 and
\* does not raise.
C2_SentinelNeverRaises ==
    (pc = "done" /\ (~HasRecognizedSuffix(period) \/ MalformedLabel(period)))
        => result = [kind |-> "ok", val |-> 0]

\* C3: a label made of one or more decimal digits n and a recognized suffix
\* resolves to n*252 ('y'), n*21 ('mo'), n*5 ('wk'), n*1 ('d').
C3_DigitsTimesBase ==
    pc = "done" =>
        \A s \in RecognizedSuffixes :
            (/\ endswith(period, s)
             /\ Len(period) > Len(s)
             /\ AllDigits(DropLast(period, Len(s))))
            => result = [kind |-> "ok",
                         val |-> DecimalValue(DropLast(period, Len(s))) * Base(s)]

\* '10y' has been resolved to 2520: a prefix of more than one digit.
C3_Witness ==
    /\ pc = "done"
    /\ period = <<"1", "0", "y">>
    /\ result = [kind |-> "ok", val |-> 2520]

(***************************************************************************)
(* Holdings, weights and numpy's weighted average.                         *)
(***************************************************************************)
Tickers == <<"A", "B">>
TickerSet == {Tickers[i] : i \in 1..Len(Tickers)}
Amounts == {1, 3}
Prices == {1, 2}

\* A holdings dict as the data model has it: positive amounts, maybe empty.
HoldingsDicts == UNION {[S -> Amounts] : S \in SUBSET TickerSet}

\* list(d.keys()): the keys of d in the order of Tickers
RECURSIVE KeysFrom(_, _)
KeysFrom(d, i) ==
    IF i > Len(Tickers) THEN <<>>
    ELSE (IF Tickers[i] \in DOMAIN d THEN <<Tickers[i]>> ELSE <<>>)
         \o KeysFrom(d, i + 1)

keys(d) == KeysFrom(d, 1)

RECURSIVE SumAmounts(_, _)
SumAmounts(d, ks) ==
    IF ks = <<>> THEN 0 ELSE d[Head(ks)] + SumAmounts(d, Tail(ks))

\* sum(tickers_and_holdings.values())
total_value(d) == SumAmounts(d, keys(d))

RECURSIVE RSum(_)
RSum(xs) == IF xs = <<>> THEN RInt(0) ELSE RAdd(Head(xs), RSum(Tail(xs)))

Products(xs, ws) == [i \in 1..Len(xs) |-> RMul(xs[i], ws[i])]

\* A bug the code could have: the weighted sum is not divided by the sum of
\* the weights kept, i.e. the weights stay relative to the original total.
average_NotRenormalized(xs, ws) == [kind |-> "ok", val |-> RSum(Products(xs, ws))]

\* np.average(xs, weights=ws) = sum(xs * ws) / sum(ws)
average(xs, ws) ==
    IF RSum(ws).n = 0 THEN [kind |-> "ZeroDivisionError"]
    ELSE [kind |-> "ok", val |-> RDiv(RSum(Products(xs, ws)), RSum(ws))]

(***************************************************************************)
(* calculate_52_week_return: hist maps each ticker to the closes that      *)
(* stock.history answered, oldest first; <<>> is an empty history.         *)
(***************************************************************************)
\* The tickers of ks, in order, whose history is not empty
RECURSIVE WithHistory(_, _)
WithHistory(ks, hist) ==
    IF ks = <<>> THEN <<>>
    ELSE (IF hist[Head(ks)] # <<>> THEN <<Head(ks)>> ELSE <<>>)
         \o WithHistory(Tail(ks), hist)

\* (end_price - start_price) / start_price, lines 85-87
stock_return(closes) == Rat(closes[Len(closes)] - closes[1], closes[1])

calculate_52_week_return(d, hist) ==
    LET ks == WithHistory(keys(d), hist)
        r == [i \in 1..Len(ks) |-> stock_return(hist[ks[i]])]
        w == [i \in 1..Len(ks) |-> Rat(d[ks[i]], total_value(d))]
    IN  IF ks = <<>> THEN [kind |-> "NoValidReturns"]
        ELSE IF total_value(d) = 0 THEN [kind |-> "ZeroDivisionError"]
        ELSE average(r, w)

(***************************************************************************)
(* fetch_portfolio_returns                                                 *)
(***************************************************************************)
PeriodLabels ==
    { <<"1", "d">>, <<"2", "d">>, <<"3", "d">>, <<"1", "w", "k">>,
      <<"x">>, <<"x", "d">> }

PeriodLists == UNION {[1..k -> PeriodLabels] : k \in 0..MaxPeriods}

Range(f) == {f[i] : i \in DOMAIN f}

Max(S) == CHOOSE x \in S : \A y \in S : y <= x
Min2(a, b) == IF a < b THEN a ELSE b

\* The tables yf.download(tickers, period=...)['Close'] can answer with: a
\* column for each ticker that has data, and at most `window` rows, fewer
\* when the history is shorter.  Every cell holds a close.
Tables(tickers, window) ==
    UNION { [cols : {C}, rows : [1..n -> [C -> Prices]]] :
              C \in SUBSET tickers, n \in 0..Min2(IF window < 0 THEN 0 ELSE window, MaxRows) }

\* df.iloc[i] of Python: negative i counts from the end
iloc(rows, i) ==
    LET k == IF i < 0 THEN Len(rows) + i + 1 ELSE i + 1
    IN  IF k \in 1..Len(rows) THEN [kind |-> "ok", val |-> rows[k]]
        ELSE [kind |-> "IndexError"]

\* A bug the slice could have: the window starts at the first row of the
\* table instead of `days` rows before its end.
start_row_FirstRow(rows, days) == iloc(rows, 0)

\* start_prices = data.iloc[-days]
start_row(rows, days) == iloc(rows, -days)

\* The tickers of ks, in order, that are columns of the table
RECURSIVE Present(_, _)
Present(ks, cols) ==
    IF ks = <<>> THEN <<>>
    ELSE (IF Head(ks) \in cols THEN <<Head(ks)>> ELSE <<>>) \o Present(Tail(ks), cols)

\* One turn of the loop over the periods (lines 184-202): the value stored
\* under the period, or the exception raised.
period_return(d, table, days) ==
    IF days # 0 /\ Len(table.rows) >= days
    THEN LET start_prices == start_row(table.rows, days)
             end_prices == iloc(table.rows, -1)
         IN  IF start_prices.kind # "ok" THEN start_prices
             ELSE IF end_prices.kind # "ok" THEN end_prices
             ELSE LET ks == Present(keys(d), table.cols)
                      r == [i \in 1..Len(ks) |->
                              Rat(end_prices.val[ks[i]] - start_prices.val[ks[i]],
                                  start_prices.val[ks[i]])]
                      w == [i \in 1..Len(ks) |-> Rat(d[ks[i]], total_value(d))]
                  IN  IF ks = <<>> THEN None
                      ELSE IF total_value(d) = 0 THEN [kind |-> "ZeroDivisionError"]
                      ELSE average(r, w)
    ELSE None

InitBatch ==
    /\ pc = "resolve"
    /\ periods \in PeriodLists
    /\ tickers_and_holdings \in HoldingsDicts \ {<<>>}
    /\ period = <<>>
    /\ result = None
    /\ period_days = <<>>
    /\ data = None
    /\ fetches = <<>>
    /\ returns = <<>>
    /\ idx = 0
    /\ op = "none"
    /\ market = None
    /\ holdings = <<>>
    /\ session_holdings = <<>>
    /\ response = None

BatchFixed == <<period, periods, tickers_and_holdings, op, market, holdings,
                session_holdings, response>>

\* line 177-178: every label is resolved, then the maximum is taken
ResolveOk ==
    /\ pc = "resolve"
    /\ periods # <<>>
    /\ \A p \in Range(periods) : _period_to_days(p).kind = "ok"
    /\ period_days' = [p \in Range(periods) |-> _period_to_days(p).val]
    /\ pc' = "fetch"
    /\ UNCHANGED <<result, data, fetches, returns, idx>>
    /\ UNCHANGED BatchFixed

\* line 177: int() raises in _period_to_days; line 178: max() of no values
ResolveRaises ==
    /\ pc = "resolve"
    /\ \/ periods = <<>>
       \/ \E p \in Range(periods) : _period_to_days(p).kind # "ok"
    /\ result' = [kind |-> "ValueError"]
    /\ pc' = "raised"
    /\ UNCHANGED <<period_days, data, fetches, returns, idx>>
    /\ UNCHANGED BatchFixed

max_days == Max(Range(period_days))

\* line 181: the one download, for the longest period
Fetch ==
    /\ pc = "fetch"
    /\ \E t \in Tables(DOMAIN tickers_and_holdings, max_days) : data' = t
    /\ fetches' = Append(fetches, max_days)
    /\ idx' = 1
    /\ pc' = "loop"
    /\ UNCHANGED <<result, period_days, returns>>
    /\ UNCHANGED BatchFixed

\* lines 183-202, one period
ComputePeriod ==
    /\ pc = "loop"
    /\ idx <= Len(periods)
    /\ LET p == periods[idx]
           v == period_return(tickers_and_holdings, data, period_days[p])
       IN  IF v.kind \in {"ok", "None"}
           THEN /\ returns' = [q \in DOMAIN returns \cup {p} |->
                                  IF q = p THEN v ELSE returns[q]]
                /\ idx' = idx + 1
                /\ UNCHANGED <<pc, result>>
           ELSE /\ result' = v
                /\ pc' = "raised"
                /\ UNCHANGED <<returns, idx>>
    /\ UNCHANGED <<period_days, data, fetches>>
    /\ UNCHANGED BatchFixed

\* line 203
ReturnBatch ==
    /\ pc = "loop"
    /\ idx > Len(periods)
    /\ result' = [kind |-> "ok", val |-> returns]
    /\ pc' = "done"
    /\ UNCHANGED <<period_days, data, fetches, returns, idx>>
    /\ UNCHANGED BatchFixed

NextBatch == ResolveOk \/ ResolveRaises \/ Fetch \/ ComputePeriod \/ ReturnBatch

SpecBatch == InitBatch /\ [][NextBatch]_vars

ResolvedOk(p) == _period_to_days(p).kind = "ok"
Resolved(p) == _period_to_days(p).val

\* C1: a period that resolves to 0 days, or to more days than the table has
\* rows, is reported None, every other period of the call has its own
\* computed return, and no label of the list makes the call fail.
C1_BadPeriodIsolated ==
    periods # <<>> =>
        /\ pc # "raised"
        /\ pc = "done" =>
             \A p \in Range(periods) :
                 IF Resolved(p) = 0 \/ Resolved(p) > Len(data.rows)
                 THEN result.val[p] = None
                 ELSE result.val[p] =
                          period_return(tickers_and_holdings, data, Resolved(p))

\* The last n rows of a column of the table, oldest first
LastRows(table, t, n) ==
    [i \in 1..n |-> table.rows[Len(table.rows) - n + i][t]]

\* The histories a single-window computation on the last n rows reads:
\* a ticker that is no column of the table has an empty history.
WindowHistory(d, table, n) ==
    [t \in DOMAIN d |-> IF t \in table.cols THEN LastRows(table, t, n) ELSE <<>>]

\* C4: for a period that resolves to d days, d no larger than the number of
\* rows of the table, the batch reports what the single-window weighted
\* return gives on the last d rows of the same table (and None where that
\* computation has no ticker with data).
C4_BatchEqualsDirect ==
    pc = "done" =>
        \A p \in Range(periods) :
            (Resolved(p) >= 0 /\ Resolved(p) <= Len(data.rows)) =>
                LET direct == calculate_52_week_return(
                                  tickers_and_holdings,
                                  WindowHistory(tickers_and_holdings, data, Resolved(p)))
                IN  IF direct.kind = "ok" THEN result.val[p] = direct
                    ELSE result.val[p] = None

\* Two periods of one call were both computed from a table of three rows or
\* more, and their returns differ: the slice decides the value.
C4_Witness ==
    /\ pc = "done"
    /\ Len(data.rows) >= 3
    /\ \E p, q \in Range(periods) :
          /\ 0 < Resolved(p) /\ Resolved(p) < Resolved(q)
          /\ Resolved(q) <= Len(data.rows)
          /\ result.val[p].kind = "ok"
          /\ result.val[q].kind = "ok"
          /\ result.val[p] # result.val[q]

\* C10: a call with one period or more makes exactly one download, whatever
\* the number of periods, and the window it asks for is the largest resolved
\* day count of the list.
C10_ExactlyOneFetch ==
    (periods # <<>> /\ pc \in {"done", "raised"}) =>
        /\ Len(fetches) = 1
        /\ (\A p \in Range(periods) : ResolvedOk(p)) =>
               fetches[1] = Max({Resolved(p) : p \in Range(periods)})

(***************************************************************************)
(* calculate_portfolio_pe_ratio: info maps each ticker to the forwardPE     *)
(* and trailingPE fields of stock.info; None is an absent field.           *)
(***************************************************************************)
PEValues == {None} \cup {[kind |-> "ok", val |-> v] : v \in {0, 10, 20}}
Infos == [forwardPE : PEValues, trailingPE : PEValues]

\* Python's truth value of a number or None
Truthy(x) == x # None /\ x.val # 0

\* a or b
Or(a, b) == IF Truthy(a) THEN a ELSE b

\* line 52
pe_ratio_of(i) == Or(i.forwardPE, i.trailingPE)

\* The tickers of ks, in order, whose pe_ratio is not None
RECURSIVE WithRatio(_, _)
WithRatio(ks, info) ==
    IF ks = <<>> THEN <<>>
    ELSE (IF pe_ratio_of(info[Head(ks)]) # None THEN <<Head(ks)>> ELSE <<>>)
         \o WithRatio(Tail(ks), info)

calculate_portfolio_pe_ratio(d, info) ==
    LET ks == WithRatio(keys(d), info)
        pe == [i \in 1..Len(ks) |-> RInt(pe_ratio_of(info[ks[i]]).val)]
        w == [i \in 1..Len(ks) |-> Rat(d[ks[i]], total_value(d))]
    IN  IF ks = <<>> THEN [kind |-> "NoValidRatios"]
        ELSE IF total_value(d) = 0 THEN [kind |-> "ZeroDivisionError"]
        ELSE average(pe, w)

(***************************************************************************)
(* calculate_portfolio_volatility and calculate_sharpe_ratio.  The table   *)
(* is what yf.download(tickers, period='1y')['Close'] answered: a close    *)
(* for every ticker in every row.  A square root is kept as the term       *)
(* [kind |-> "sqrt", of |-> q]; it is 0 exactly when q is 0.               *)
(***************************************************************************)
CloseTables(tickers) ==
    UNION {[cols : {tickers}, rows : [1..n -> [tickers -> Prices]]] : n \in 0..MaxRows}

\* data.pct_change() of one column, without its first (NaN) entry
pct_change(table, t) ==
    [i \in 1..(Len(table.rows) - 1) |->
        Rat(table.rows[i + 1][t] - table.rows[i][t], table.rows[i][t])]

\* Series.mean(): NaN when there is no observation
mean(xs) ==
    IF xs = <<>> THEN [kind |-> "nan"]
    ELSE [kind |-> "ok", val |-> RDiv(RSum(xs), RInt(Len(xs)))]

\* DataFrame.cov(): the sample covariance, NaN with fewer than 2 observations
cov(xs, ys) ==
    IF Len(xs) < 2 THEN [kind |-> "nan"]
    ELSE LET mx == mean(xs).val
             my == mean(ys).val
             dev == [i \in 1..Len(xs) |-> RMul(RSub(xs[i], mx), RSub(ys[i], my))]
         IN  [kind |-> "ok", val |-> RDiv(RSum(dev), RInt(Len(xs) - 1))]

Annualization == 252

\* weights.T @ cov_matrix @ weights, with cov_matrix = returns.cov() * 252
quadratic_form(d, table) ==
    LET ks == keys(d)
        w(t) == Rat(d[t], total_value(d))
        pairs == {<<i, j>> : i \in 1..Len(ks), j \in 1..Len(ks)}
        term(i, j) ==
            RMul(RMul(w(ks[i]), w(ks[j])),
                 RMul(cov(pct_change(table, ks[i]), pct_change(table, ks[j])).val,
                      RInt(Annualization)))
        order == CHOOSE f \in [1..Cardinality(pairs) -> pairs] :
                     \A a, b \in DOMAIN f : a # b => f[a] # f[b]
    IN  IF Len(table.rows) < 3 THEN [kind |-> "nan"]
        ELSE [kind |-> "ok",
              val |-> RSum([k \in 1..Cardinality(pairs) |-> term(order[k][1], order[k][2])])]

\* What the functions that download a table do with no ticker at all is the
\* library's business (an exception from the download or the column lookup,
\* or an empty table, whose quadratic form and mean return are 0).
EmptyDownloadOutcomes == {"KeyError", "ValueError", "empty"}

\* np.sqrt(...)
sqrt(q) == IF q.kind = "ok" THEN [kind |-> "sqrt", of |-> q.val] ELSE q

IsZero(v) == v.kind = "sqrt" /\ v.of.n = 0

calculate_portfolio_volatility(d, table) == sqrt(quadratic_form(d, table))

\* np.sum(mean_returns * weights) * 252
portfolio_return(d, table) ==
    LET ks == keys(d)
    IN  IF Len(table.rows) < 2 THEN [kind |-> "nan"]
        ELSE [kind |-> "ok",
              val |-> RMul(RSum([i \in 1..Len(ks) |->
                                   RMul(mean(pct_change(table, ks[i])).val,
                                        Rat(d[ks[i]], total_value(d)))]),
                           RInt(Annualization))]

\* risk_free_rate = 0.01
risk_free_rate == Rat(1, 100)

\* x / y in IEEE arithmetic, y a square root: a zero divisor gives an
\* infinity or NaN, never an exception
float_div(x, y) ==
    IF x.kind = "nan" \/ y.kind = "nan" THEN [kind |-> "nan"]
    ELSE IF IsZero(y)
         THEN (IF x.val.n > 0 THEN [kind |-> "inf"]
               ELSE IF x.val.n < 0 THEN [kind |-> "-inf"]
               ELSE [kind |-> "nan"])
    ELSE [kind |-> "ok", num |-> x.val, den |-> y]

excess_return(d, table) ==
    LET r == portfolio_return(d, table)
    IN  IF r.kind = "ok" THEN [kind |-> "ok", val |-> RSub(r.val, risk_free_rate)]
        ELSE r

calculate_sharpe_ratio(d, table) ==
    float_div(excess_return(d, table), calculate_portfolio_volatility(d, table))

(***************************************************************************)
(* The metric functions, each called once on a holdings dict.              *)
(***************************************************************************)
Histories == UNION {[1..n -> Prices] : n \in 0..MaxRows}

InitMetrics ==
    /\ pc = "call"
    /\ tickers_and_holdings \in HoldingsDicts
    /\ op = "none"
    /\ market = None
    /\ result = None
    /\ period = <<>>
    /\ periods = <<>>
    /\ period_days = <<>>
    /\ data = None
    /\ fetches = <<>>
    /\ returns = <<>>
    /\ idx = 0
    /\ holdings = <<>>
    /\ session_holdings = <<>>
    /\ response = None

MetricsFixed == <<period, periods, tickers_and_holdings, period_days, data,
                  fetches, returns, idx, holdings, session_holdings, response>>

Return(name, answer, value) ==
    /\ op' = name
    /\ market' = answer
    /\ result' = value
    /\ pc' = "done"
    /\ UNCHANGED MetricsFixed

Return52Week ==
    /\ pc = "call"
    /\ \E hist \in [DOMAIN tickers_and_holdings -> Histories] :
          Return("52_week_return", hist,
                 calculate_52_week_return(tickers_and_holdings, hist))

PERatio ==
    /\ pc = "call"
    /\ \E info \in [DOMAIN tickers_and_holdings -> Infos] :
          Return("pe_ratio", info,
                 calculate_portfolio_pe_ratio(tickers_and_holdings, info))

Volatility ==
    /\ pc = "call"
    /\ IF tickers_and_holdings = <<>>
       THEN \E o \in EmptyDownloadOutcomes :
               Return("volatility", [kind |-> o],
                      IF o = "empty" THEN sqrt([kind |-> "ok", val |-> RInt(0)])
                      ELSE [kind |-> o])
       ELSE \E table \in CloseTables(DOMAIN tickers_and_holdings) :
               Return("volatility", table,
                      calculate_portfolio_volatility(tickers_and_holdings, table))

SharpeRatio ==
    /\ pc = "call"
    /\ IF tickers_and_holdings = <<>>
       THEN \E o \in EmptyDownloadOutcomes :
               Return("sharpe_ratio", [kind |-> o],
                      IF o = "empty" THEN [kind |-> "-inf"] ELSE [kind |-> o])
       ELSE \E table \in CloseTables(DOMAIN tickers_and_holdings) :
               Return("sharpe_ratio", table,
                      calculate_sharpe_ratio(tickers_and_holdings, table))

NextMetrics == Return52Week \/ PERatio \/ Volatility \/ SharpeRatio

SpecMetrics == InitMetrics /\ [][NextMetrics]_vars

Called(name) == pc = "done" /\ op = name

RECURSIVE AmountSum(_, _)
AmountSum(S, d) ==
    IF S = {} THEN 0
    ELSE LET t == CHOOSE x \in S : TRUE IN d[t] + AmountSum(S \ {t}, d)

\* sum over S of amount_t * value(t)
RECURSIVE AmountWeighted(_, _, _)
AmountWeighted(S, d, value) ==
    IF S = {} THEN RInt(0)
    ELSE LET t == CHOOSE x \in S : TRUE
         IN  RAdd(RMul(RInt(d[t]), value[t]), AmountWeighted(S \ {t}, d, value))

HasData(hist) == {t \in DOMAIN hist : hist[t] # <<>>}

\* C5: tickers with an empty history are left out and the weights are taken
\* over the tickers that remain: the result is sum(amount_i * return_i) /
\* sum(amount_i) over the tickers with data, and NoValidReturns when no
\* ticker has data.
C5_RenormalizedReturn ==
    Called("52_week_return") =>
        LET S == HasData(market)
            r == [t \in S |-> stock_return(market[t])]
        IN  IF S = {} THEN result = [kind |-> "NoValidReturns"]
            ELSE result =
                   [kind |-> "ok",
                    val |-> RDiv(AmountWeighted(S, tickers_and_holdings, r),
                                 RInt(AmountSum(S, tickers_and_holdings)))]

\* One ticker of two has no history, the other has a return that is not 0,
\* and the portfolio return reported is that ticker's return alone.
C5_Witness ==
    /\ Called("52_week_return")
    /\ \E t, u \in DOMAIN tickers_and_holdings :
          /\ market[t] = <<>>
          /\ market[u] # <<>>
          /\ stock_return(market[u]).n # 0
          /\ result = [kind |-> "ok", val |-> stock_return(market[u])]

\* The ratio the claim has the code use: forward if there is one, whatever
\* its value, else trailing, else none.
ForwardElseTrailing(i) == IF i.forwardPE # None THEN i.forwardPE ELSE i.trailingPE

\* C6: each ticker counts with its forward P/E whenever it has one (whatever
\* its value), else with its trailing P/E, else not at all; the result is the
\* average of these ratios weighted by the holdings of the tickers counted,
\* and NoValidRatios exactly when no ticker has either ratio.
C6_ForwardElseTrailing ==
    Called("pe_ratio") =>
        LET S == {t \in DOMAIN market : ForwardElseTrailing(market[t]) # None}
            pe == [t \in S |-> RInt(ForwardElseTrailing(market[t]).val)]
        IN  /\ (result.kind = "NoValidRatios") <=> (S = {})
            /\ S # {} =>
                 result = [kind |-> "ok",
                           val |-> RDiv(AmountWeighted(S, tickers_and_holdings, pe),
                                        RInt(AmountSum(S, tickers_and_holdings)))]

\* C7: the Sharpe operation reports UndefinedSharpe exactly when the
\* volatility computes to 0, never an infinity or NaN in that case, and
\* (annualized return - risk-free rate) / volatility otherwise.
C7_UndefinedSharpe ==
    (Called("sharpe_ratio") /\ tickers_and_holdings # <<>>) =>
        LET vol == calculate_portfolio_volatility(tickers_and_holdings, market)
        IN  /\ (result.kind = "UndefinedSharpe") <=> IsZero(vol)
            /\ IsZero(vol) => result.kind \notin {"inf", "-inf", "nan"}
            /\ (vol.kind = "sqrt" /\ ~IsZero(vol)) =>
                 result = [kind |-> "ok",
                           num |-> excess_return(tickers_and_holdings, market).val,
                           den |-> vol]

\* C8: every metric function called on holdings that are empty or whose total
\* is zero fails with EmptyPortfolio.
C8_EmptyPortfolio ==
    (pc = "done" /\ total_value(tickers_and_holdings) = 0) =>
        result.kind = "EmptyPortfolio"

(***************************************************************************)
(* The two front-ends and their holdings.  A float is a record: a number   *)
(* [kind |-> "num", val |-> n], or one of the IEEE values nan, inf, -inf.  *)
(***************************************************************************)
Num(n) == [kind |-> "num", val |-> n]

\* The <ticker> and <amount> segments of /add/<ticker>/<amount>
TickerInputs == {"a", "A", "b", "B"}
AmountInputs == {"1", "3", "0", "-1", "abc", "nan", "inf", "-inf"}

\* The ticker text box and the number box (min_value=0.0) of app.py
TickerTexts == TickerInputs \cup {""}
NumberInputs == {Num(0), Num(1), Num(3)}

\* What the ticker lookup, stock.history(period="1d"), can answer
Lookups == {"data", "empty", "exception"}

\* str.upper()
upper(s) == CASE s = "a" -> "A" [] s = "b" -> "B" [] OTHER -> s

\* float(str): ValueError on text that is no number
float(s) ==
    CASE s = "1" -> Num(1)
      [] s = "3" -> Num(3)
      [] s = "0" -> Num(0)
      [] s = "-1" -> Num(-1)
      [] s = "nan" -> [kind |-> "nan"]
      [] s = "inf" -> [kind |-> "inf"]
      [] s = "-inf" -> [kind |-> "-inf"]
      [] OTHER -> [kind |-> "ValueError"]

\* x <= 0 and x > 0 on floats: every comparison with nan is false
LeZero(x) == (x.kind = "num" /\ x.val <= 0) \/ x.kind = "-inf"
GtZero(x) == (x.kind = "num" /\ x.val > 0) \/ x.kind = "inf"

\* d[k] = v
Store(d, k, v) == [q \in DOMAIN d \cup {k} |-> IF q = k THEN v ELSE d[q]]

Init ==
    /\ holdings = <<>>
    /\ session_holdings = <<>>
    /\ response = None
    /\ pc = "serving"
    /\ period = <<>>
    /\ result = None
    /\ periods = <<>>
    /\ tickers_and_holdings = <<>>
    /\ period_days = <<>>
    /\ data = None
    /\ fetches = <<>>
    /\ returns = <<>>
    /\ idx = 0
    /\ op = "none"
    /\ market = None

WebFixed == <<pc, period, result, periods, tickers_and_holdings, period_days,
              data, fetches, returns, idx, op, market>>

Rejects(front, status) ==
    /\ response' = [front |-> front, status |-> status]
    /\ UNCHANGED <<holdings, session_holdings>>

\* main.py, /add/<ticker>/<amount>
add_ticker ==
    \E ticker_in \in TickerInputs, amount_in \in AmountInputs, lookup \in Lookups :
        LET ticker == upper(ticker_in)
            amount == float(amount_in)
        IN  /\ IF amount.kind = "ValueError" THEN Rejects("flask", "400")
               ELSE IF LeZero(amount) THEN Rejects("flask", "400")
               ELSE IF lookup # "data" THEN Rejects("flask", "404")
               ELSE /\ holdings' = Store(holdings, ticker, amount)
                    /\ response' = [front |-> "flask", status |-> "200"]
                    /\ UNCHANGED session_holdings
            /\ UNCHANGED WebFixed

\* main.py, /watchlist
watchlist ==
    /\ response' = [front |-> "flask", status |-> "200", body |-> holdings]
    /\ UNCHANGED <<holdings, session_holdings>>
    /\ UNCHANGED WebFixed

\* app.py, the 'Add Stock' button
AddStock ==
    \E text \in TickerTexts, amount \in NumberInputs, lookup \in Lookups :
        LET ticker == upper(text)
        IN  /\ IF ticker # "" /\ GtZero(amount)
               THEN IF lookup # "data" THEN Rejects("streamlit", "error")
                    ELSE /\ session_holdings' = Store(session_holdings, ticker, amount)
                         /\ response' = [front |-> "streamlit", status |-> "success"]
                         /\ UNCHANGED holdings
               ELSE Rejects("streamlit", "warning")
            /\ UNCHANGED WebFixed

Next == add_ticker \/ watchlist \/ AddStock

Spec == Init /\ [][Next]_vars

UpperCase(k) == k \notin {"a", "b"}

\* A number strictly greater than 0
Positive(x) == x.kind \in {"num", "inf"} /\ GtZero(x)

HoldingsValid(d) == \A k \in DOMAIN d : UpperCase(k) /\ Positive(d[k])

Accepted(r) == r # None /\ r.status \in {"200", "success"}

\* C9: after any add requests every key of the holdings is upper-case and
\* every amount stored is a number strictly greater than 0, and a request
\* that is rejected leaves the holdings as they were.
C9_HoldingsInvariant ==
    [][ /\ HoldingsValid(holdings') /\ HoldingsValid(session_holdings')
        /\ ~Accepted(response') => UNCHANGED <<holdings, session_holdings>> ]_vars

====
